---- MODULE Spec2Model ----
(***************************************************************************)
(* A model of edtech_job_watcher.py: the keyword matcher, the two board    *)
(* parsers, the per-company harvest and the main loop with its final       *)
(* de-duplication and sort.                                                *)
(*                                                                         *)
(* Text is modelled as a sequence of one-character strings, so that        *)
(* lower-casing, substring tests, word boundaries, URL joining and the     *)
(* code-point order of sorted() are computed and not assumed.              *)
(***************************************************************************)
EXTENDS Integers, Sequences, FiniteSets, TLC

(***************************************************************************)
(* Bounds of the model.                                                    *)
(***************************************************************************)
\* number of consecutive COMPANIES entries one modelled run iterates over
NumSources == 3

\* length of the synthetic aggregates handed to the final de-dup/sort
MaxRows == 3

(***************************************************************************)
(* Characters and strings.                                                 *)
(***************************************************************************)
\* the characters the model's texts use, in ascending code-point order
AsciiChars == <<" ","&","(",")","-",".","/","0","1","2","3","4","5","6","7","8","9",":","=","?","A","B","C","D","E","F","G","H","I","J","K","L","M","N","O","P","Q","R","S","T","U","V","W","X","Y","Z","_","a","b","c","d","e","f","g","h","i","j","k","l","m","n","o","p","q","r","s","t","u","v","w","x","y","z">>

UpperChars == <<"A","B","C","D","E","F","G","H","I","J","K","L","M","N","O","P","Q","R","S","T","U","V","W","X","Y","Z">>

LowerChars == <<"a","b","c","d","e","f","g","h","i","j","k","l","m","n","o","p","q","r","s","t","u","v","w","x","y","z">>

DigitChars == <<"0","1","2","3","4","5","6","7","8","9">>

Range(s) == {s[i] : i \in 1..Len(s)}

UpperSet == Range(UpperChars)

WordChars == Range(UpperChars) \cup Range(LowerChars) \cup Range(DigitChars) \cup {"_"}

IndexIn(s, c) == CHOOSE i \in 1..Len(s) : s[i] = c

\* ord(c), up to an order-preserving renumbering of the characters in use
ord(c) == IndexIn(AsciiChars, c)

\* str.lower() on one character
LowerChar(c) == IF c \in UpperSet THEN LowerChars[IndexIn(UpperChars, c)] ELSE c

\* str.lower()
lower(s) == SubSeq([i \in 1..Len(s) |-> LowerChar(s[i])], 1, Len(s))

\* the regular expression class \w
IsWordChar(c) == c \in WordChars

\* str.isspace() on one character
IsSpaceChar(c) == c = " "

\* t occurs in s at position i
OccursAt(s, t, i) == /\ i >= 1
                     /\ i + Len(t) - 1 <= Len(s)
                     /\ \A j \in 1..Len(t) : s[i + j - 1] = t[j]

\* the Python test `t in s` on strings
Contains(s, t) == \E i \in 1..(Len(s) + 1) : OccursAt(s, t, i)

\* str.strip()
strip(s) == LET keep == {i \in 1..Len(s) : ~IsSpaceChar(s[i])}
            IN  IF keep = {} THEN <<>>
                ELSE SubSeq(s, CHOOSE i \in keep : \A j \in keep : i <= j,
                               CHOOSE i \in keep : \A j \in keep : i >= j)

\* str < str: lexicographic by code point, a proper prefix first
StrLess(a, b) ==
  \/ (Len(a) < Len(b) /\ \A i \in 1..Len(a) : a[i] = b[i])
  \/ \E n \in 1..Len(a) :
        /\ n <= Len(b)
        /\ (\A i \in 1..(n - 1) : a[i] = b[i])
        /\ ord(a[n]) < ord(b[n])

(***************************************************************************)
(* Config.                                                                 *)
(***************************************************************************)
COMPANIES == <<
  [name |-> <<"A","m","p","l","i","f","y">>, url |-> <<"h","t","t","p","s",":","/","/","b","o","a","r","d","s",".","g","r","e","e","n","h","o","u","s","e",".","i","o","/","a","m","p","l","i","f","y">>],
  [name |-> <<"I","n","s","t","r","u","c","t","u","r","e">>, url |-> <<"h","t","t","p","s",":","/","/","b","o","a","r","d","s",".","g","r","e","e","n","h","o","u","s","e",".","i","o","/","i","n","s","t","r","u","c","t","u","r","e">>],
  [name |-> <<"K","h","a","n"," ","A","c","a","d","e","m","y">>, url |-> <<"h","t","t","p","s",":","/","/","b","o","a","r","d","s",".","g","r","e","e","n","h","o","u","s","e",".","i","o","/","k","h","a","n","a","c","a","d","e","m","y">>],
  [name |-> <<"D","u","o","l","i","n","g","o">>, url |-> <<"h","t","t","p","s",":","/","/","b","o","a","r","d","s",".","g","r","e","e","n","h","o","u","s","e",".","i","o","/","d","u","o","l","i","n","g","o">>],
  [name |-> <<"2","U"," ","/"," ","e","d","X">>, url |-> <<"h","t","t","p","s",":","/","/","b","o","a","r","d","s",".","g","r","e","e","n","h","o","u","s","e",".","i","o","/","2","u">>],
  [name |-> <<"Q","u","i","z","l","e","t">>, url |-> <<"h","t","t","p","s",":","/","/","b","o","a","r","d","s",".","g","r","e","e","n","h","o","u","s","e",".","i","o","/","q","u","i","z","l","e","t">>],
  [name |-> <<"C","h","e","g","g">>, url |-> <<"h","t","t","p","s",":","/","/","b","o","a","r","d","s",".","g","r","e","e","n","h","o","u","s","e",".","i","o","/","c","h","e","g","g">>],
  [name |-> <<"C","o","u","r","s","e","r","a">>, url |-> <<"h","t","t","p","s",":","/","/","b","o","a","r","d","s",".","g","r","e","e","n","h","o","u","s","e",".","i","o","/","c","o","u","r","s","e","r","a">>],
  [name |-> <<"P","e","a","r","s","o","n">>, url |-> <<"h","t","t","p","s",":","/","/","p","e","a","r","s","o","n",".","j","o","b","s","/","s","e","a","r","c","h","/","?","q","=","&","l","o","c","a","t","i","o","n","=","r","e","m","o","t","e">>],
  [name |-> <<"H","M","H"," ","(","H","o","u","g","h","t","o","n"," ","M","i","f","f","l","i","n"," ","H","a","r","c","o","u","r","t",")">>, url |-> <<"h","t","t","p","s",":","/","/","c","a","r","e","e","r","s",".","h","m","h","c","o",".","c","o","m","/","j","o","b","s">>],
  [name |-> <<"E","T","S">>, url |-> <<"h","t","t","p","s",":","/","/","e","t","s","c","a","r","e","e","r","s",".","s","e","a","r","c","h","s","o","f","t",".","n","e","t","/","P","D","/","V","a","c","a","n","c","y","L","i","s","t",".","a","s","p","x">>],
  [name |-> <<"C","u","r","r","i","c","u","l","u","m"," ","A","s","s","o","c","i","a","t","e","s">>, url |-> <<"h","t","t","p","s",":","/","/","w","w","w",".","c","u","r","r","i","c","u","l","u","m","a","s","s","o","c","i","a","t","e","s",".","c","o","m","/","a","b","o","u","t","/","c","a","r","e","e","r","s">>],
  [name |-> <<"N","W","E","A">>, url |-> <<"h","t","t","p","s",":","/","/","w","w","w",".","n","w","e","a",".","o","r","g","/","a","b","o","u","t","/","c","a","r","e","e","r","s","/">>] >>

RAW_KEYWORDS == <<
  <<"s","e","c","u","r","i","t","y">>, <<"c","y","b","e","r">>, <<"i","n","f","o","r","m","a","t","i","o","n"," ","s","e","c","u","r","i","t","y">>, <<"i","n","f","o","s","e","c">>, <<"i","a","m">>,
  <<"r","i","s","k">>, <<"g","r","c">>, <<"c","o","m","p","l","i","a","n","c","e">>, <<"p","r","i","v","a","c","y">>, <<"s","e","c","u","r","i","t","y"," ","a","n","a","l","y","s","t">>,
  <<"s","e","c","u","r","i","t","y"," ","e","n","g","i","n","e","e","r">>, <<"t","r","u","s","t">>, <<"v","u","l","n","e","r","a","b","i","l","i","t","y">>, <<"t","h","r","e","a","t">>, <<"s","o","c">> >>

\* the safety cap, scaled down from 300 so that a page can exceed it
MAX_PER_SITE == 2

\* the names bound in the module's global namespace when main() runs
ModuleGlobals == {"annotations", "csv", "datetime", "re", "sys", "time", "dataclass", "List", "Tuple", "urljoin", "requests", "BeautifulSoup", "COMPANIES", "RAW_KEYWORDS", "KEYWORD_PATTERNS", "USER_AGENT", "TIMEOUT", "MAX_PER_SITE", "job", "fetch", "matches_keywords", "parse_greenhouse", "parse_generic", "harvest_company", "main"}

(***************************************************************************)
(* matches_keywords.                                                       *)
(***************************************************************************)
\* \b at the gap before position p (p = 1 is the start, Len(t)+1 the end)
WordBoundary(t, p) == LET before == p > 1 /\ IsWordChar(t[p - 1])
                          after  == p <= Len(t) /\ IsWordChar(t[p])
                      IN  before # after

\* a character of the pattern against one of the text under re.I
SameIgnoringCase(a, b) == LowerChar(a) = LowerChar(b)

\* re.compile(rf"\b{re.escape(k)}\b", re.I).search(t)
PatternSearch(k, t) == \E i \in 1..(Len(t) - Len(k) + 1) :
                          /\ WordBoundary(t, i)
                          /\ \A j \in 1..Len(k) : SameIgnoringCase(k[j], t[i + j - 1])
                          /\ WordBoundary(t, i + Len(k))

MutSubstringKeywords(text) == \E n \in 1..Len(RAW_KEYWORDS) : Contains(lower(text), RAW_KEYWORDS[n])

matches_keywords(text) == LET t == lower(text)
                          IN  \E n \in 1..Len(RAW_KEYWORDS) : PatternSearch(RAW_KEYWORDS[n], t)

(***************************************************************************)
(* urllib.parse.urljoin, for the URL shapes the pages use: an absolute     *)
(* URL, a root-relative path, a path-relative reference without dot        *)
(* segments, and the empty reference.                                      *)
(***************************************************************************)
FirstIndex(s, c, from) == LET hits == {i \in from..Len(s) : s[i] = c}
                          IN  IF hits = {} THEN 0 ELSE CHOOSE i \in hits : \A j \in hits : i <= j

LastIndex(s, c) == LET hits == {i \in 1..Len(s) : s[i] = c}
                   IN  IF hits = {} THEN 0 ELSE CHOOSE i \in hits : \A j \in hits : i >= j

\* urlparse(u).scheme is non-empty
HasScheme(u) == LET c == FirstIndex(u, ":", 1)
                IN  /\ c > 1
                    /\ \A j \in 1..(c - 1) : u[j] \in WordChars \ {"_"}

\* scheme://netloc of an absolute URL
Origin(u) == LET c == FirstIndex(u, ":", 1)
                 s == FirstIndex(u, "/", c + 3)
             IN  IF s = 0 THEN u ELSE SubSeq(u, 1, s - 1)

\* the path of an absolute URL, without query
PathOf(u) == LET rest == SubSeq(u, Len(Origin(u)) + 1, Len(u))
                 q    == FirstIndex(rest, "?", 1)
             IN  IF q = 0 THEN rest ELSE SubSeq(rest, 1, q - 1)

urljoin(base, url) ==
  IF url = <<>> THEN base
  ELSE IF HasScheme(url) THEN url
  ELSE IF url[1] = "/" THEN Origin(base) \o url
  ELSE LET p == PathOf(base)
           dir == IF p = <<>> THEN <<"/">> ELSE SubSeq(p, 1, LastIndex(p, "/"))
       IN  Origin(base) \o dir \o url

(***************************************************************************)
(* Parsed markup.  A page is its declared <base href>, its canonical link  *)
(* and its elements in document order; `opening` is the number of the      *)
(* enclosing div.opening (0: none), openings numbered in document order;   *)
(* `pieces` are the text nodes below the element.                          *)
(***************************************************************************)
Anchor(opening, href, pieces) == [tag |-> "a", classes |-> <<>>, hasHref |-> TRUE, href |-> href, pieces |-> pieces, opening |-> opening]

BareAnchor(opening, pieces) == [tag |-> "a", classes |-> <<>>, hasHref |-> FALSE, href |-> <<>>, pieces |-> pieces, opening |-> opening]

Element(opening, tag, classes, pieces) == [tag |-> tag, classes |-> classes, hasHref |-> FALSE, href |-> <<>>, pieces |-> pieces, opening |-> opening]

Page(base, canonical, nodes) == [base |-> base, canonical |-> canonical, nodes |-> nodes]

RECURSIVE JoinPieces(_, _)
JoinPieces(ps, sep) == IF ps = <<>> THEN <<>>
                       ELSE IF Len(ps) = 1 THEN ps[1]
                       ELSE ps[1] \o sep \o JoinPieces(Tail(ps), sep)

\* Tag.get_text(sep, strip=True)
get_text(node, sep) == LET stripped == [i \in 1..Len(node.pieces) |-> strip(node.pieces[i])]
                       IN  JoinPieces(SelectSeq(stripped, LAMBDA p : p # <<>>), sep)

\* the selector a[href*='/job/']
IsJobAnchor(n) == n.tag = "a" /\ n.hasHref /\ Contains(n.href, <<"/","j","o","b","/">>)

\* the selector .location
IsDotLocation(n) == \E i \in 1..Len(n.classes) : n.classes[i] = <<"l","o","c","a","t","i","o","n">>

\* the lambda of find / find_next: a span or div with a class containing "location"
IsLocationTag(n) == /\ n.tag \in {"span", "div"}
                    /\ n.classes # <<>>
                    /\ \E i \in 1..Len(n.classes) : Contains(lower(n.classes[i]), <<"l","o","c","a","t","i","o","n">>)

MinOf(S) == CHOOSE i \in S : \A j \in S : i <= j

NumOpenings(nodes) == LET os == {nodes[i].opening : i \in 1..Len(nodes)}
                      IN  CHOOSE m \in os \cup {0} : \A o \in os : o <= m

(***************************************************************************)
(* The Job(...) call.  The module binds the dataclass to the name `job`;   *)
(* a call of `Job` looks the name up in the module's globals and raises    *)
(* NameError when it is not bound, before any record is built.             *)
(***************************************************************************)
NoArgs == [company |-> <<>>, title |-> <<>>, location |-> <<>>, url |-> <<>>]

Job(company, title, location, url) ==
  [raised |-> IF "Job" \in ModuleGlobals THEN "" ELSE "NameError",
   args   |-> [company |-> company, title |-> title, location |-> location, url |-> url]]

(***************************************************************************)
(* One iteration of each parser loop, up to the Job(...) call: Skip for    *)
(* a candidate the loop passes over, else the call and what it did.        *)
(***************************************************************************)
Skip == [raised |-> "skip", args |-> NoArgs]

\* opening.select_one(".location") or opening.find(lambda ...)
OpeningLocation(nodes, o) ==
  LET dot == {i \in 1..Len(nodes) : nodes[i].opening = o /\ IsDotLocation(nodes[i])}
      lam == {i \in 1..Len(nodes) : nodes[i].opening = o /\ IsLocationTag(nodes[i])}
  IN  IF dot # {} THEN get_text(nodes[MinOf(dot)], <<>>)
      ELSE IF lam # {} THEN get_text(nodes[MinOf(lam)], <<>>)
      ELSE <<>>

\* a.find_next(lambda ...)
NextLocation(nodes, k) ==
  LET lam == {i \in (k + 1)..Len(nodes) : IsLocationTag(nodes[i])}
  IN  IF lam # {} THEN get_text(nodes[MinOf(lam)], <<>>) ELSE <<>>

\* lines 85-97 of parse_greenhouse, for the anchor at element k of opening o
PrimaryAnchor(company, nodes, base_url, o, k, title, href) ==
  IF title = <<>> \/ href = <<>> THEN Skip
  ELSE IF ~matches_keywords(title) THEN Skip
  ELSE Job(company, title, OpeningLocation(nodes, o), href)

\* lines 82-97 of parse_greenhouse, for opening o
PrimaryVisit(company, nodes, base_url, o) ==
  LET as == {i \in 1..Len(nodes) : nodes[i].opening = o /\ IsJobAnchor(nodes[i])}
  IN  IF as = {} THEN Skip
      ELSE PrimaryAnchor(company, nodes, base_url, o, MinOf(as),
                         get_text(nodes[MinOf(as)], <<>>), urljoin(base_url, nodes[MinOf(as)].href))

\* lines 104-116 of parse_greenhouse, for the anchor at element k
FallbackAnchor(company, nodes, base_url, k, title, href) ==
  IF title # <<>> /\ href # <<>> /\ matches_keywords(title)
  THEN Job(company, title, NextLocation(nodes, k), href)
  ELSE Skip

\* lines 103-116 of parse_greenhouse, for element k
FallbackVisit(company, nodes, base_url, k) ==
  IF ~IsJobAnchor(nodes[k]) THEN Skip
  ELSE FallbackAnchor(company, nodes, base_url, k, get_text(nodes[k], <<>>), urljoin(base_url, nodes[k].href))

(***************************************************************************)
(* parse_generic.                                                          *)
(***************************************************************************)
JobLinkTokens == <<<<"j","o","b">>, <<"c","a","r","e","e","r">>, <<"p","o","s","i","t","i","o","n">>, <<"o","p","p","o","r","t","u","n","i","t">>>>

MutCaseSensitiveJobLink(href) == \E n \in 1..Len(JobLinkTokens) : Contains(href, JobLinkTokens[n])

\* any(s in href.lower() for s in (...))
LooksLikeJobLink(href) == \E n \in 1..Len(JobLinkTokens) : Contains(lower(href), JobLinkTokens[n])

MutUnresolvedUrl(base_url, href) == href

\* line 133: abs_url
GenericUrl(base_url, href) == urljoin(base_url, href)

\* lines 129-134 of parse_generic, for an anchor with this text and href
GenericAnchor(company, base_url, title, href) ==
  IF title = <<>> \/ href = <<>> THEN Skip
  ELSE IF matches_keywords(title) /\ LooksLikeJobLink(href)
  THEN Job(company, title, <<>>, GenericUrl(base_url, href))
  ELSE Skip

\* lines 126-134 of parse_generic, for element k
GenericVisit(company, nodes, base_url, k) ==
  IF ~(nodes[k].tag = "a" /\ nodes[k].hasHref) THEN Skip
  ELSE GenericAnchor(company, base_url, get_text(nodes[k], <<" ">>), nodes[k].href)

(***************************************************************************)
(* fetch and harvest_company.                                              *)
(***************************************************************************)
\* what requests.get meets on the network
Timeout == [kind |-> "timeout", status |-> 0, text |-> Page(<<>>, <<>>, <<>>)]

ConnectionFailed == [kind |-> "connection", status |-> 0, text |-> Page(<<>>, <<>>, <<>>)]

HttpResponse(status, page) == [kind |-> "http", status |-> status, text |-> page]

\* fetch: requests.get raises on a timeout or a failed connection,
\* raise_for_status on a 4xx or 5xx status
fetch(url, net) ==
  IF net.kind = "timeout" THEN [raised |-> "Timeout", text |-> net.text]
  ELSE IF net.kind = "connection" THEN [raised |-> "ConnectionError", text |-> net.text]
  ELSE IF net.status >= 400 THEN [raised |-> "HTTPError", text |-> net.text]
  ELSE [raised |-> "", text |-> net.text]

\* the test `"boards.greenhouse.io" in url`
IsGreenhouse(url) == Contains(url, <<"b","o","a","r","d","s",".","g","r","e","e","n","h","o","u","s","e",".","i","o">>)

MutSwappedParser(url) == IF IsGreenhouse(url) THEN "parse_generic" ELSE "parse_greenhouse"

\* lines 147-150 of harvest_company: the parser for the URL
SelectParser(url) == IF IsGreenhouse(url) THEN "parse_greenhouse" ELSE "parse_generic"

(***************************************************************************)
(* sorted(set(rows)).                                                      *)
(***************************************************************************)
\* tuple < tuple on rows of four strings
RowLess(a, b) ==
  \E n \in 1..4 :
     /\ (\A i \in 1..(n - 1) : a[i] = b[i])
     /\ StrLess(a[n], b[n])

RECURSIVE SortRows(_)
SortRows(S) == IF S = {} THEN <<>>
               ELSE LET m == CHOOSE x \in S : \A y \in S \ {x} : RowLess(x, y)
                    IN  <<m>> \o SortRows(S \ {m})

RECURSIVE MutSortedKeepsDuplicates(_)
MutSortedKeepsDuplicates(rs) ==
  IF rs = <<>> THEN <<>>
  ELSE LET m == CHOOSE i \in 1..Len(rs) : \A j \in 1..Len(rs) : ~RowLess(rs[j], rs[i])
       IN  <<rs[m]>> \o MutSortedKeepsDuplicates(SubSeq(rs, 1, m - 1) \o SubSeq(rs, m + 1, Len(rs)))

SortedDedup(rs) == SortRows(Range(rs))

CsvHeader == <<<<"C","o","m","p","a","n","y">>, <<"T","i","t","l","e">>, <<"L","o","c","a","t","i","o","n">>, <<"L","i","n","k">>>>

(***************************************************************************)
(* The pages a fetch may return.                                           *)
(***************************************************************************)
\* two openings, one relevant title, locations marked by span.location
PageOpenings == Page(<<>>, <<>>, <<
  Anchor(1, <<"/","a","m","p","l","i","f","y","/","j","o","b","/","1","0","1">>, <<<<"S","e","c","u","r","i","t","y"," ","E","n","g","i","n","e","e","r"," ","I","I">>>>),
  Element(1, "span", <<<<"l","o","c","a","t","i","o","n">>>>, <<<<" ","R","e","m","o","t","e"," ">>>>),
  Anchor(2, <<"/","a","m","p","l","i","f","y","/","j","o","b","/","1","0","2">>, <<<<"M","a","r","k","e","t","i","n","g"," ","A","s","s","o","c","i","a","t","e">>>>),
  Element(2, "span", <<<<"l","o","c","a","t","i","o","n">>>>, <<<<"N","Y","C">>>>) >>)

\* three relevant openings: more than the cap
PageManyOpenings == Page(<<>>, <<>>, <<
  Anchor(1, <<"h","t","t","p","s",":","/","/","b","o","a","r","d","s",".","g","r","e","e","n","h","o","u","s","e",".","i","o","/","a","c","m","e","/","j","o","b","/","1">>, <<<<"S","O","C"," ","A","n","a","l","y","s","t">>>>),
  Element(1, "div", <<<<"j","o","b","-","L","o","c","a","t","i","o","n">>>>, <<<<"A","u","s","t","i","n">>>>),
  Anchor(2, <<"/","a","c","m","e","/","j","o","b","/","2">>, <<<<"I","A","M"," ","L","e","a","d">>>>),
  Anchor(3, <<"/","a","c","m","e","/","j","o","b","/","3">>, <<<<"P","r","i","v","a","c","y"," ","C","o","u","n","s","e","l">>>>) >>)

\* openings whose titles hold a keyword only inside a longer word
PageMidWord == Page(<<>>, <<>>, <<
  Anchor(1, <<"/","a","c","m","e","/","j","o","b","/","4">>, <<<<"S","o","c","i","a","l"," ","M","e","d","i","a"," ","L","e","a","d">>>>),
  Anchor(2, <<"/","a","c","m","e","/","j","o","b","/","5">>, <<<<"M","i","a","m","i"," ","S","a","l","e","s">>>>),
  Anchor(3, <<"/","a","c","m","e","/","j","o","b","/","6">>, <<<<"S","e","c","u","r","i","t","y">>, <<"E","n","g","i","n","e","e","r">>>>),
  Anchor(4, <<"/","a","c","m","e","/","j","o","b","/","7">>, <<<<"r","i","s","k","_","m","a","n","a","g","e","r">>>>),
  Anchor(5, <<"/","a","c","m","e","/","a","b","o","u","t">>, <<<<"S","e","c","u","r","i","t","y"," ","T","e","a","m">>>>) >>)

\* a relevant opening and a relevant job anchor outside every opening
PageOpeningAndList == Page(<<>>, <<>>, <<
  Anchor(1, <<"/","a","c","m","e","/","j","o","b","/","8">>, <<<<"T","r","u","s","t"," ","E","n","g","i","n","e","e","r">>>>),
  Anchor(0, <<"/","a","c","m","e","/","j","o","b","/","9">>, <<<<"C","o","m","p","l","i","a","n","c","e"," ","A","n","a","l","y","s","t">>>>),
  Element(0, "div", <<<<"l","o","c","a","t","i","o","n">>>>, <<<<"B","o","s","t","o","n">>>>) >>)

\* the list variant: job anchors without openings, more than the cap
PageList == Page(<<>>, <<>>, <<
  Anchor(0, <<"/","a","c","m","e","/","j","o","b","/","1","0">>, <<<<"M","a","r","k","e","t","i","n","g"," ","L","e","a","d">>>>),
  Anchor(0, <<"/","a","c","m","e","/","j","o","b","/","1","1">>, <<<<"R","i","s","k"," ","M","a","n","a","g","e","r">>>>),
  Element(0, "p", <<<<"l","o","c","a","t","i","o","n">>>>, <<<<"P","a","r","i","s">>>>),
  Element(0, "div", <<<<"j","o","b","-","l","o","c","a","t","i","o","n">>>>, <<<<"B","e","r","l","i","n">>>>),
  Anchor(0, <<"/","a","c","m","e","/","j","o","b","/","1","2">>, <<<<"T","h","r","e","a","t"," ","H","u","n","t","e","r">>>>),
  Anchor(0, <<"/","a","c","m","e","/","j","o","b","/","1","3">>, <<<<"G","R","C"," ","A","n","a","l","y","s","t">>>>) >>)

\* a generic page with a <base href> of another origin
PageBase == Page(<<"h","t","t","p","s",":","/","/","c","d","n",".","e","x","a","m","p","l","e",".","o","r","g","/">>, <<>>, <<
  Anchor(0, <<"/","a","b","o","u","t">>, <<<<"A","b","o","u","t"," ","u","s">>>>),
  Anchor(0, <<"/","p","r","i","v","a","c","y">>, <<<<"P","r","i","v","a","c","y"," ","P","o","l","i","c","y">>>>),
  Anchor(0, <<"/","j","o","b","s","/","2","2">>, <<<<"S","o","c","i","a","l"," ","M","e","d","i","a"," ","L","e","a","d">>>>),
  Anchor(0, <<"/","j","o","b","s","/","2","1">>, <<<<"S","e","c","u","r","i","t","y">>, <<"E","n","g","i","n","e","e","r">>>>) >>)

\* a generic page with a canonical link and an "opportunities" path
PageCanonical == Page(<<>>, <<"h","t","t","p","s",":","/","/","w","w","w",".","e","x","a","m","p","l","e",".","o","r","g","/","c","a","r","e","e","r","s","/">>, <<
  BareAnchor(0, <<<<"S","e","c","u","r","i","t","y"," ","J","o","b","s">>>>),
  Anchor(0, <<>>, <<<<"C","y","b","e","r"," ","C","a","r","e","e","r","s">>>>),
  Anchor(0, <<"o","p","p","o","r","t","u","n","i","t","i","e","s","/","3","1">>, <<<<"C","y","b","e","r"," ","R","i","s","k"," ","L","e","a","d">>>>) >>)

\* a generic page without hints, more than the cap
PagePlain == Page(<<>>, <<>>, <<
  Anchor(0, <<"C","a","r","e","e","r","s","/","4","1">>, <<<<"S","O","C"," ","A","n","a","l","y","s","t">>>>),
  Anchor(0, <<"h","t","t","p","s",":","/","/","j","o","b","s",".","e","x","a","m","p","l","e",".","o","r","g","/","4","2">>, <<<<"I","n","f","o","S","e","c"," ","M","a","n","a","g","e","r">>>>),
  Anchor(0, <<"/","b","l","o","g","/","4","3">>, <<<<"S","e","c","u","r","i","t","y"," ","G","u","i","d","e">>>>),
  Anchor(0, <<"/","p","o","s","i","t","i","o","n","/","4","4">>, <<<<"V","u","l","n","e","r","a","b","i","l","i","t","y"," ","A","n","a","l","y","s","t">>>>) >>)

\* a page rendered by script: no anchors in the markup
PageEmpty == Page(<<>>, <<>>, <<>>)

Pages == {PageOpenings, PageManyOpenings, PageMidWord, PageOpeningAndList, PageList, PageBase, PageCanonical, PagePlain, PageEmpty}

\* what the network may answer to one request
Network == {Timeout, ConnectionFailed} \cup {HttpResponse(404, PageEmpty), HttpResponse(503, PageEmpty)} \cup {HttpResponse(200, p) : p \in Pages}

(***************************************************************************)
(* The state of one run of main().                                         *)
(***************************************************************************)
VARIABLES
  first,      \* the run iterates over COMPANIES[first], ..., NumSources entries
  idx,        \* the position of the loop of main() in that registry
  pc,         \* where the run is
  inFlight,   \* requests sent and not yet answered
  fetched,    \* per source, the requests sent for it
  html,       \* harvest_company's html
  parsers,    \* the parsers harvest_company called for the current source
  k,          \* the position of the running parser loop
  found,      \* the parser's jobs list
  call,       \* the last Job(...) call of the parser
  jobs,       \* main()'s jobs: what harvest_company returned
  rows,       \* main()'s rows
  aggregate,  \* rows as they were before line 165 rebinds the name
  warnings,   \* the [WARN] lines on stderr
  csvOut,     \* the rows written to the CSV file
  hint,       \* "No matches today..." was printed
  fault       \* the uncaught exception that ended the process, if any

vars == <<first, idx, pc, inFlight, fetched, html, parsers, k, found, call, jobs, rows, aggregate, warnings, csvOut, hint, fault>>

Registry == [i \in 1..NumSources |-> COMPANIES[first + i - 1]]

NoPage == Page(<<>>, <<>>, <<>>)

Init == /\ first \in 1..(Len(COMPANIES) - NumSources + 1)
        /\ idx = 1
        /\ pc = "loop"
        /\ inFlight = 0
        /\ fetched = [i \in 1..NumSources |-> 0]
        /\ html = NoPage
        /\ parsers = <<>>
        /\ k = 0
        /\ found = <<>>
        /\ call = Skip
        /\ jobs = <<>>
        /\ rows = <<>>
        /\ aggregate = <<>>
        /\ warnings = <<>>
        /\ csvOut = <<>>
        /\ hint = FALSE
        /\ fault = ""

\* main() takes the next company and harvest_company sends its request
Request == /\ pc = "loop"
           /\ idx <= NumSources
           /\ pc' = "fetch"
           /\ inFlight' = inFlight + 1
           /\ fetched' = [fetched EXCEPT ![idx] = @ + 1]
           /\ UNCHANGED <<first, idx, html, parsers, k, found, call, jobs, rows, aggregate, warnings, csvOut, hint, fault>>

\* fetch ends: harvest_company goes on to its parser, or warns and returns []
Response == /\ pc = "fetch"
            /\ \E net \in Network :
                 LET r == fetch(Registry[idx].url, net)
                 IN  IF r.raised = ""
                     THEN /\ html' = r.text
                          /\ pc' = "select"
                          /\ UNCHANGED <<jobs, warnings>>
                     ELSE /\ warnings' = Append(warnings, [company |-> Registry[idx].name, cause |-> r.raised])
                          /\ jobs' = <<>>
                          /\ pc' = "append"
                          /\ UNCHANGED html
            /\ inFlight' = inFlight - 1
            /\ UNCHANGED <<first, idx, fetched, parsers, k, found, call, rows, aggregate, csvOut, hint, fault>>

\* harvest_company calls the parser for the URL
Select == /\ pc = "select"
          /\ parsers' = Append(parsers, SelectParser(Registry[idx].url))
          /\ pc' = IF SelectParser(Registry[idx].url) = "parse_greenhouse" THEN "primary" ELSE "generic"
          /\ k' = 1
          /\ found' = <<>>
          /\ UNCHANGED <<first, idx, inFlight, fetched, html, call, jobs, rows, aggregate, warnings, csvOut, hint, fault>>

\* One iteration of the parser loop at `here`.  At the loop's end, and at
\* the break of the cap, the parser goes on at afterLoop; v is what the
\* iteration did up to its Job(...) call, and an exception of that call is
\* caught nowhere: it ends the process.
LoopStep(here, atEnd, v, afterLoop) ==
  /\ pc = here
  /\ fault = ""
  /\ call' = IF atEnd \/ v.raised = "skip" THEN call ELSE v
  /\ fault' = IF atEnd \/ v.raised \in {"skip", ""} THEN fault ELSE v.raised
  /\ found' = IF atEnd \/ v.raised # "" THEN found ELSE Append(found, v.args)
  /\ pc' = IF atEnd THEN afterLoop
           ELSE IF v.raised = "skip" THEN here
           ELSE IF v.raised # "" THEN here
           ELSE IF Len(found') >= MAX_PER_SITE THEN "append"
           ELSE here
  /\ k' = IF fault' # "" THEN k
          ELSE IF pc' = here THEN k + 1
          ELSE IF pc' = "fallback" THEN 1
          ELSE k
  /\ jobs' = IF pc' = "append" THEN found' ELSE jobs
  /\ UNCHANGED <<first, idx, inFlight, fetched, html, parsers, rows, aggregate, warnings, csvOut, hint>>

\* parse_greenhouse, the loop over soup.select("div.opening") and the
\* test `if not jobs` after it
PrimaryStep == LoopStep("primary", k > NumOpenings(html.nodes),
                        PrimaryVisit(Registry[idx].name, html.nodes, Registry[idx].url, k),
                        IF found = <<>> THEN "fallback" ELSE "append")

\* parse_greenhouse, the loop over soup.select("a[href*='/job/']")
FallbackStep == LoopStep("fallback", k > Len(html.nodes),
                         FallbackVisit(Registry[idx].name, html.nodes, Registry[idx].url, k),
                         "append")

\* parse_generic, the loop over soup.select("a[href]")
GenericStep == LoopStep("generic", k > Len(html.nodes),
                        GenericVisit(Registry[idx].name, html.nodes, Registry[idx].url, k),
                        "append")

\* for j in jobs: rows.append((company, j.title, j.location, j.url))
AppendRows == /\ pc = "append"
              /\ rows' = rows \o [n \in 1..Len(jobs) |-> <<Registry[idx].name, jobs[n].title, jobs[n].location, jobs[n].url>>]
              /\ pc' = "sleep"
              /\ UNCHANGED <<first, idx, inFlight, fetched, html, parsers, k, found, call, jobs, aggregate, warnings, csvOut, hint, fault>>

\* time.sleep(1), then the next company or the end of the loop
Sleep == /\ pc = "sleep"
         /\ idx' = idx + 1
         /\ pc' = IF idx + 1 > NumSources THEN "dedup" ELSE "loop"
         /\ html' = NoPage
         /\ parsers' = <<>>
         /\ k' = 0
         /\ found' = <<>>
         /\ call' = Skip
         /\ jobs' = <<>>
         /\ UNCHANGED <<first, inFlight, fetched, rows, aggregate, warnings, csvOut, hint, fault>>

\* rows = sorted(set(rows)), the CSV file, the closing messages
Finish == /\ pc = "dedup"
          /\ aggregate' = rows
          /\ rows' = SortedDedup(rows)
          /\ csvOut' = <<CsvHeader>> \o rows'
          /\ hint' = (rows' = <<>>)
          /\ pc' = "done"
          /\ UNCHANGED <<first, idx, inFlight, fetched, html, parsers, k, found, call, jobs, warnings, fault>>

Next == \/ Request
        \/ Response
        \/ Select
        \/ PrimaryStep
        \/ FallbackStep
        \/ GenericStep
        \/ AppendRows
        \/ Sleep
        \/ Finish

Spec == Init /\ [][Next]_vars

(***************************************************************************)
(* The final de-duplication and sort on its own, applied to a synthetic    *)
(* aggregate: the loop of main() has ended and rows holds listings.        *)
(***************************************************************************)
RowPool == {
  <<<<"C","h","e","g","g">>, <<"S","O","C"," ","A","n","a","l","y","s","t">>, <<>>, <<"h","t","t","p","s",":","/","/","c",".","i","o","/","j","o","b","/","1">>>>,
  <<<<"C","h","e","g","g">>, <<"S","O","C"," ","A","n","a","l","y","s","t">>, <<"R","e","m","o","t","e">>, <<"h","t","t","p","s",":","/","/","c",".","i","o","/","j","o","b","/","1">>>>,
  <<<<"A","m","p","l","i","f","y">>, <<"S","e","c","u","r","i","t","y"," ","E","n","g","i","n","e","e","r"," ","I","I">>, <<"R","e","m","o","t","e">>, <<"h","t","t","p","s",":","/","/","a",".","i","o","/","j","o","b","/","2">>>>,
  <<<<"A","m","p","l","i","f","y">>, <<"S","e","c","u","r","i","t","y"," ","E","n","g","i","n","e","e","r">>, <<"R","e","m","o","t","e">>, <<"h","t","t","p","s",":","/","/","a",".","i","o","/","j","o","b","/","3">>>>,
  <<<<"E","T","S">>, <<"I","A","M"," ","L","e","a","d">>, <<>>, <<"h","t","t","p","s",":","/","/","e",".","o","r","g","/","C","a","r","e","e","r","s","/","4">>>> }

SeqsUpTo(S, n) == UNION {[1..m -> S] : m \in 0..n}

InitOut == /\ first = 1
           /\ idx = NumSources + 1
           /\ pc = "dedup"
           /\ inFlight = 0
           /\ fetched = [i \in 1..NumSources |-> 1]
           /\ html = NoPage
           /\ parsers = <<>>
           /\ k = 0
           /\ found = <<>>
           /\ call = Skip
           /\ jobs = <<>>
           /\ rows \in SeqsUpTo(RowPool, MaxRows)
           /\ aggregate = <<>>
           /\ warnings = <<>>
           /\ csvOut = <<>>
           /\ hint = FALSE
           /\ fault = ""

NextOut == Finish

SpecOut == InitOut /\ [][NextOut]_vars

(***************************************************************************)
(* What the claims speak of, stated on the markup and not on the loops.    *)
(***************************************************************************)
\* the run is over: main() returned, or an uncaught exception ended it
RunEnded == pc = "done" \/ fault # ""

\* a parser is at work on the current source, or an exception ended it there
Parsing == pc \in {"primary", "fallback", "generic"}

\* the parser of the current source made a Job(...) call
CallMade == Parsing /\ call.raised # "skip"

\* the fetch of the current source failed
FetchFailed(i) == \E n \in 1..Len(warnings) : warnings[n].company = Registry[i].name

\* the maximal runs of word characters of a text
RunStarts(t) == {i \in 1..Len(t) : IsWordChar(t[i]) /\ (i = 1 \/ ~IsWordChar(t[i - 1]))}

RunEnd(t, i) == CHOOSE j \in i..Len(t) : /\ (\A m \in i..j : IsWordChar(t[m]))
                                         /\ (j = Len(t) \/ ~IsWordChar(t[j + 1]))

WordRuns(t) == {SubSeq(t, i, RunEnd(t, i)) : i \in RunStarts(t)}

\* a phrase stands in a text as whole words
PhraseStands(kw, t) == \E i \in 1..Len(t) :
                          /\ OccursAt(t, kw, i)
                          /\ (i = 1 \/ ~IsWordChar(t[i - 1]))
                          /\ (i + Len(kw) - 1 = Len(t) \/ ~IsWordChar(t[i + Len(kw)]))

\* a configured keyword is a standalone token (or whole phrase) of the title
Standalone(title) ==
  LET t    == lower(title)
      runs == WordRuns(t)
  IN  \E n \in 1..Len(RAW_KEYWORDS) :
         IF " " \in Range(RAW_KEYWORDS[n]) THEN PhraseStands(RAW_KEYWORDS[n], t)
         ELSE RAW_KEYWORDS[n] \in runs

\* a configured keyword occurs in the title, but only inside longer words
MidWordOnly(title) == /\ \E n \in 1..Len(RAW_KEYWORDS) : Contains(lower(title), RAW_KEYWORDS[n])
                      /\ ~Standalone(title)

\* the titles of the listings that exist, or are being created, in a state
ListingTitles == {rows[n][2] : n \in 1..Len(rows)}
                 \cup {found[n].title : n \in 1..Len(found)}
                 \cup {jobs[n].title : n \in 1..Len(jobs)}
                 \cup (IF CallMade THEN {call.args.title} ELSE {})

\* the texts the parsers read from the anchors of the current page
AnchorTexts == {get_text(html.nodes[i], <<>>) : i \in 1..Len(html.nodes)}
               \cup {get_text(html.nodes[i], <<" ">>) : i \in 1..Len(html.nodes)}

\* element i of the page is an anchor the generic parser has to accept,
\* with the given path tokens
GenericAcceptable(i, tokens) ==
  LET n == html.nodes[i]
  IN  /\ n.tag = "a"
      /\ n.hasHref
      /\ n.href # <<>>
      /\ get_text(n, <<" ">>) # <<>>
      /\ Standalone(get_text(n, <<" ">>))
      /\ \E tok \in tokens : Contains(lower(n.href), tok)

CodeTokens == {<<"j","o","b">>, <<"c","a","r","e","e","r">>, <<"p","o","s","i","t","i","o","n">>, <<"o","p","p","o","r","t","u","n","i","t">>}

SpecTokens == {<<"j","o","b">>, <<"c","a","r","e","e","r">>, <<"p","o","s","i","t","i","o","n">>, <<"o","p","p","o","r","t","u","n","i","t","y">>}

\* opening o of the page holds a listing for the primary path
PrimaryAcceptable(o) ==
  \E i \in 1..Len(html.nodes) :
     /\ html.nodes[i].opening = o
     /\ IsJobAnchor(html.nodes[i])
     /\ \A j \in 1..(i - 1) : ~(html.nodes[j].opening = o /\ IsJobAnchor(html.nodes[j]))
     /\ Standalone(get_text(html.nodes[i], <<>>))

\* element i of the page holds a listing for the fallback path
FallbackAcceptable(i) == /\ IsJobAnchor(html.nodes[i])
                         /\ Standalone(get_text(html.nodes[i], <<>>))

\* the parser called for the current source: "" before the call
Path == IF parsers = <<>> THEN "" ELSE parsers[1]

\* the parser of the current source is over: it returned or raised
ParseOver == \/ Parsing /\ fault # ""
             \/ pc \in {"append", "sleep"} /\ parsers # <<>>

\* the candidates of the current page for the path that handles it: elements
\* for the generic parser, else the openings with a listing, else (no
\* opening has one) the job anchors of the list variant
PrimaryCandidates == {o \in 1..NumOpenings(html.nodes) : PrimaryAcceptable(o)}

Candidates ==
  IF Path = "parse_generic" THEN {i \in 1..Len(html.nodes) : GenericAcceptable(i, CodeTokens)}
  ELSE IF PrimaryCandidates # {} THEN PrimaryCandidates
  ELSE {i \in 1..Len(html.nodes) : FallbackAcceptable(i)}

\* the title of the listing of opening o
PrimaryTitle(o) ==
  get_text(html.nodes[MinOf({i \in 1..Len(html.nodes) : html.nodes[i].opening = o /\ IsJobAnchor(html.nodes[i])})], <<>>)

CandidateTitle(c) == IF Path = "parse_generic" THEN get_text(html.nodes[c], <<" ">>)
                     ELSE IF PrimaryCandidates # {} THEN PrimaryTitle(c)
                     ELSE get_text(html.nodes[c], <<>>)

\* the n-th candidate in document order
NthCandidate(n) == CHOOSE c \in Candidates : Cardinality({d \in Candidates : d < c}) = n - 1

\* the host of the URL is the Greenhouse board host
AtsHost(url) == Origin(url) = <<"h","t","t","p","s",":","/","/","b","o","a","r","d","s",".","g","r","e","e","n","h","o","u","s","e",".","i","o">>

(***************************************************************************)
(* The claims.                                                             *)
(***************************************************************************)

\* C1 (as claimed): a source whose fetch failed has a warning naming it,
\* contributes no listing, and does not stop the run: when the run is over
\* every source after it has been fetched and main() has returned.
C1_FailureIsolation ==
  \A i \in 1..NumSources :
     FetchFailed(i) =>
        /\ (idx = i /\ pc \in {"append", "sleep"} => jobs = <<>>)
        /\ \A n \in 1..Len(rows) : rows[n][1] # Registry[i].name
        /\ (RunEnded => /\ pc = "done"
                        /\ \A j \in (i + 1)..NumSources : fetched[j] = 1)

\* C2 (as claimed): no fault aborts the run, a candidate the parser accepts
\* becomes a Listing of the parser's result, and a run that is over has
\* processed every source and handed its aggregate to the output.
C2_ListingCreatedRunCompletes ==
  /\ fault = ""
  /\ (CallMade => call.raised = "" /\ call.args \in Range(found))
  /\ (RunEnded => /\ \A i \in 1..NumSources : fetched[i] = 1
                  /\ csvOut = <<CsvHeader>> \o rows)

C4_TitlesRelevantWholeWord ==
  /\ \A t \in ListingTitles : t # <<>> /\ Standalone(t) /\ ~MidWordOnly(t)
  /\ (pc = "select" => \A t \in AnchorTexts : /\ (MidWordOnly(t) => ~matches_keywords(t))
                                              /\ (Standalone(t) => matches_keywords(t)))

\* C4 witness: the generic parser passed over a title with a keyword inside
\* a longer word and went on to create a listing for a standalone one.
C4_Witness ==
  /\ pc = "generic"
  /\ CallMade
  /\ Standalone(call.args.title)
  /\ \E i \in 1..(k - 1) : /\ MidWordOnly(get_text(html.nodes[i], <<" ">>))
                           /\ LooksLikeJobLink(html.nodes[i].href)

\* C5 (as claimed): a parser never holds more than the cap, and on a page
\* with more candidates than the cap its result is exactly the first cap
\* candidates in document order.
C5_SafetyCap ==
  /\ Len(found) <= MAX_PER_SITE
  /\ Len(jobs) <= MAX_PER_SITE
  /\ (ParseOver /\ Cardinality(Candidates) > MAX_PER_SITE =>
        /\ Len(found) = MAX_PER_SITE
        /\ \A n \in 1..Len(found) : found[n].title = CandidateTitle(NthCandidate(n)))

\* C6: the rows written are the aggregate as a set, in strictly ascending
\* tuple order (so no row twice, none lost, none invented, and an order
\* that depends on the set alone).
C6_DedupSorted ==
  pc = "done" =>
     /\ Range(rows) = Range(aggregate)
     /\ \A n \in 1..(Len(rows) - 1) : RowLess(rows[n], rows[n + 1])
     /\ csvOut = <<CsvHeader>> \o rows

\* C6 witness: an aggregate appended out of order with a listing twice.
C6_Witness ==
  /\ pc = "done"
  /\ Len(aggregate) = 3
  /\ aggregate[1] = aggregate[3]
  /\ RowLess(aggregate[2], aggregate[1])
  /\ Len(rows) = 2

C9_ParserSelection ==
  idx <= NumSources =>
     /\ Len(parsers) <= 1
     /\ (pc \in {"primary", "fallback"} => AtsHost(Registry[idx].url))
     /\ (pc = "generic" => ~AtsHost(Registry[idx].url))
     /\ (Parsing \/ (pc \in {"append", "sleep"} /\ ~FetchFailed(idx)) =>
           parsers = <<IF AtsHost(Registry[idx].url) THEN "parse_greenhouse" ELSE "parse_generic">>)
     /\ (CallMade => call.args.company = Registry[idx].name)
     /\ \A n \in 1..Len(found) : found[n].company = Registry[idx].name
     /\ \A n \in 1..Len(rows) : \E i \in 1..idx : rows[n][1] = Registry[i].name

\* C9 witness: the second source of the run is a generic one whose parser
\* is creating a listing, after a Greenhouse source whose fetch succeeded.
C9_Witness ==
  /\ idx = 2
  /\ pc = "generic"
  /\ CallMade
  /\ call.args.company = Registry[2].name
  /\ AtsHost(Registry[1].url)
  /\ warnings = <<>>

\* C10 (as claimed): at most one request is outstanding, the sources are
\* fetched in registry order, none twice, and when the run is over each
\* has been fetched exactly once.
C10_SequentialExactlyOnce ==
  /\ inFlight <= 1
  /\ \A i \in 1..NumSources : fetched[i] = IF i < idx \/ (i = idx /\ pc # "loop") THEN 1 ELSE 0
  /\ (RunEnded => \A i \in 1..NumSources : fetched[i] = 1)
====
